---- MODULE Spec2Model ----
(***************************************************************************)
(* Model of compare_streamed_and_flat_tables.py: the comparison of the     *)
(* schemas of the tables of a BigQuery dataset ("old") with the schemas    *)
(* stored in local JSON files ("new").                                     *)
(*                                                                         *)
(* Three specifications are given.                                         *)
(*   PairSpec  one call of compare_table_pair on arbitrary bounded raw     *)
(*             schemas: get_table_schema, load_local_schema's parse and    *)
(*             sort, compare_schemas.                                      *)
(*   Spec      the __main__ script: get_table_list, the loop over the      *)
(*             tables with its try/except, the final json.dump.            *)
(*   FairSpec  Spec with the fairness of a sequential program that is      *)
(*             never suspended for ever.                                   *)
(*                                                                         *)
(* Python values are modelled as follows.  A dict is a function whose      *)
(* DOMAIN is the set of its keys, so that a missing key is a key that is   *)
(* not in the DOMAIN.  A list is a sequence.  A str that the program       *)
(* slices or matches (table and file names) is a sequence of one-character *)
(* strings; a str that it only compares is a TLA+ string.  A call that can *)
(* raise yields [exc |-> name of the exception] or [val |-> its result].   *)
(***************************************************************************)
EXTENDS Integers, Sequences, FiniteSets, TLC

VARIABLES
    \* ---- one call of compare_table_pair (PairSpec) ----
    ppc,             \* position in compare_table_pair
    table_ref,       \* what client.get_table returns (line 18), or raises
    raw_new,         \* the list json.load returns
    schema_old,      \* line 75
    schema_new,      \* line 76
    result,          \* what compare_table_pair returns or raises
    \* ---- the __main__ script (Spec) ----
    pc,              \* position in the script
    directory,       \* the files of new_schema_dir: file name -> parsed content
    tables,          \* line 89
    idx,             \* position of the for loop in tables
    all_differences, \* line 92
    trace,           \* per iteration: the external calls made, the line printed
    written          \* the documents written to schema_comparison_results.json

pairVars == <<ppc, table_ref, raw_new, schema_old, schema_new, result>>
mainVars == <<pc, directory, tables, idx, all_differences, trace, written>>
vars == <<ppc, table_ref, raw_new, schema_old, schema_new, result,
          pc, directory, tables, idx, all_differences, trace, written>>

-----------------------------------------------------------------------------
(* Bounds and universes *)

\* Longest raw schema of PairSpec.
MaxLen == 2
\* Longest list of tables get_table_list returns in Spec.
MaxTables == 2

FieldNames == {"a", "b", "c"}
FieldTypes == {"INTEGER", "STRING"}

\* Python's None, the value dict.get returns for a missing key; it is no type.
None == "None"

\* Python's order on the str values of FieldNames ("a" < "b").
NameOrd == [a |-> 1, b |-> 2, c |-> 3]

SeqsUpTo(S, n) == UNION {[1..k -> S] : k \in 0..n}

\* The SchemaField objects of table_ref.schema: name, field_type and mode are
\* attributes every SchemaField has.
SchemaFields ==
    [name : FieldNames, field_type : FieldTypes, mode : {"NULLABLE"}]

\* The records of a local JSON file: the program assumes 'name' and 'type'
\* (line 38) and nothing enforces either.
JsonRecords ==
    [name : FieldNames, type : FieldTypes]
        \cup [name : FieldNames] \cup [type : FieldTypes]

\* client.get_table raising (table deleted, no permission, network).
RemoteError == [exc |-> "GoogleAPIError"]

Raised(r) == "exc" \in DOMAIN r

\* The Table objects client.get_table can return: only .schema is read.
TableRefs(n) == [schema : SeqsUpTo(SchemaFields, n)]

-----------------------------------------------------------------------------
(* Pure functions *)

\* sorted(schema, key=lambda x: x['name']): list.sort is stable, so x goes
\* after every element whose key is not greater than its own.
RECURSIVE InsertByName(_, _)
InsertByName(sorted, x) ==
    IF sorted = <<>> THEN <<x>>
    ELSE IF NameOrd[x.name] < NameOrd[Head(sorted).name]
         THEN <<x>> \o sorted
         ELSE <<Head(sorted)>> \o InsertByName(Tail(sorted), x)

RECURSIVE StableSort(_)
StableSort(schema) ==
    IF schema = <<>> THEN <<>>
    ELSE InsertByName(StableSort(SubSeq(schema, 1, Len(schema) - 1)),
                      schema[Len(schema)])

\* x['name'] raises KeyError for a record without the key.
sorted_by_name(schema) ==
    IF \E i \in DOMAIN schema : "name" \notin DOMAIN schema[i]
    THEN [exc |-> "KeyError"]
    ELSE [val |-> StableSort(schema)]

\* Lines 18-24.
get_table_schema(ref) ==
    IF Raised(ref) THEN ref
    ELSE sorted_by_name([i \in DOMAIN ref.schema |->
                            [name |-> ref.schema[i].name,
                             type |-> ref.schema[i].field_type]])

\* {field['name']: field for field in schema}: a later field replaces an
\* earlier one of the same name.
DictByName(schema) ==
    [n \in {schema[i].name : i \in DOMAIN schema} |->
        schema[CHOOSE i \in DOMAIN schema :
                  /\ schema[i].name = n
                  /\ \A j \in DOMAIN schema : schema[j].name = n => j <= i]]

\* field.get('type')
GetType(field) == IF "type" \in DOMAIN field THEN field.type ELSE None

\* list(a_set): the elements once each, in the set's iteration order, which
\* the program does not control.
ListsOf(S) ==
    {l \in [1..Cardinality(S) -> S] : \A x \in S : \E i \in DOMAIN l : l[i] = x}

\* Line 53.
missing_in_new(dict_old, dict_new) == DOMAIN dict_old \ DOMAIN dict_new

\* Line 54 with the operands of line 53.
missing_in_old_AsLine53(dict_old, dict_new) ==
    DOMAIN dict_old \ DOMAIN dict_new

\* Line 54.
missing_in_old(dict_old, dict_new) == DOMAIN dict_new \ DOMAIN dict_old

\* Lines 61-65 with the two types stored under the wrong keys.
field_diffs_Swapped(dict_old, dict_new) ==
    [col \in {c \in DOMAIN dict_old \cap DOMAIN dict_new :
                 GetType(dict_old[c]) # GetType(dict_new[c])} |->
        [old |-> GetType(dict_new[col]), new |-> GetType(dict_old[col])]]

\* Lines 61-65 looping over the names of either schema, a name that a schema
\* lacks having no type there.
field_diffs_AllNames(dict_old, dict_new) ==
    LET TypeOrNone(dict, c) ==
            IF c \in DOMAIN dict THEN GetType(dict[c]) ELSE None
    IN  [col \in {c \in DOMAIN dict_old \cup DOMAIN dict_new :
                     TypeOrNone(dict_old, c) # TypeOrNone(dict_new, c)} |->
            [old |-> TypeOrNone(dict_old, col),
             new |-> TypeOrNone(dict_new, col)]]

\* Lines 61-65.
field_diffs(dict_old, dict_new) ==
    [col \in {c \in DOMAIN dict_old \cap DOMAIN dict_new :
                 GetType(dict_old[c]) # GetType(dict_new[c])} |->
        [old |-> GetType(dict_old[col]), new |-> GetType(dict_new[col])]]

\* Lines 56-59 and 66-67 without the three if-tests.
DifferenceKeys_Unguarded(min, mio, fd) ==
    {"missing_in_new", "missing_in_old", "field_differences"}

\* Lines 56-59 and 66-67: the keys differences is given.
DifferenceKeys(min, mio, fd) ==
    (IF min # {} THEN {"missing_in_new"} ELSE {})
        \cup (IF mio # {} THEN {"missing_in_old"} ELSE {})
        \cup (IF DOMAIN fd # {} THEN {"field_differences"} ELSE {})

\* Lines 41-69.  The set of the values the call can return (they differ in the
\* order of the two lists), or the exception of line 49 or 50.
compare_schemas(s_old, s_new) ==
    IF \E i \in DOMAIN s_old : "name" \notin DOMAIN s_old[i]
    THEN {[exc |-> "KeyError"]}
    ELSE IF \E i \in DOMAIN s_new : "name" \notin DOMAIN s_new[i]
    THEN {[exc |-> "KeyError"]}
    ELSE
      LET dict_old == DictByName(s_old)
          dict_new == DictByName(s_new)
          min == missing_in_new(dict_old, dict_new)
          mio == missing_in_old(dict_old, dict_new)
          fd  == field_diffs(dict_old, dict_new)
      IN  {[val |-> [k \in DifferenceKeys(min, mio, fd) |->
                       CASE k = "missing_in_new" -> l1
                         [] k = "missing_in_old" -> l2
                         [] OTHER -> fd]] :
              l1 \in ListsOf(min), l2 \in ListsOf(mio)}

-----------------------------------------------------------------------------
(* PairSpec: one call of compare_table_pair, lines 71-77 *)

NotYet == <<>>

MainIdle ==
    /\ pc = "idle"
    /\ directory = <<>>
    /\ tables = <<>>
    /\ idx = 1
    /\ all_differences = <<>>
    /\ trace = <<>>
    /\ written = <<>>

PairInit ==
    /\ ppc = "line75"
    /\ table_ref \in TableRefs(MaxLen) \cup {RemoteError}
    /\ raw_new \in SeqsUpTo(JsonRecords, MaxLen)
    /\ schema_old = NotYet
    /\ schema_new = NotYet
    /\ result = NotYet
    /\ MainIdle

\* Line 75.
PairGetTableSchema ==
    /\ ppc = "line75"
    /\ LET r == get_table_schema(table_ref)
       IN  IF Raised(r)
           THEN /\ result' = r
                /\ ppc' = "raised"
                /\ UNCHANGED schema_old
           ELSE /\ schema_old' = r.val
                /\ ppc' = "line76"
                /\ UNCHANGED result
    /\ UNCHANGED <<table_ref, raw_new, schema_new>>
    /\ UNCHANGED mainVars

\* Line 76, after the file is parsed (load_local_schema line 39).
PairLoadLocalSchema ==
    /\ ppc = "line76"
    /\ LET r == sorted_by_name(raw_new)
       IN  IF Raised(r)
           THEN /\ result' = r
                /\ ppc' = "raised"
                /\ UNCHANGED schema_new
           ELSE /\ schema_new' = r.val
                /\ ppc' = "line77"
                /\ UNCHANGED result
    /\ UNCHANGED <<table_ref, raw_new, schema_old>>
    /\ UNCHANGED mainVars

\* Line 77.
PairCompareSchemas ==
    /\ ppc = "line77"
    /\ \E r \in compare_schemas(schema_old, schema_new) :
          /\ result' = r
          /\ ppc' = IF Raised(r) THEN "raised" ELSE "returned"
    /\ UNCHANGED <<table_ref, raw_new, schema_old, schema_new>>
    /\ UNCHANGED mainVars

PairNext ==
    \/ PairGetTableSchema
    \/ PairLoadLocalSchema
    \/ PairCompareSchemas

PairSpec == PairInit /\ [][PairNext]_vars

-----------------------------------------------------------------------------
(* Spec: the __main__ script, lines 79-121 *)

\* Lines 81-83.
old_project == "nih-nci-dceg-connect-prod-6d04"
old_dataset == "FlatConnect"
new_schema_dir == "warren_schemas"

\* The table names INFORMATION_SCHEMA.TABLES can list: a table, its _JP
\* variant, and a table whose name starts with the name of the first.
TableNames ==
    {<<"T">>, <<"T", "_", "J", "P">>, <<"T", "X">>}

\* get_table_list, lines 6-11: the names of the tables of the dataset, each
\* once.
TableLists ==
    {l \in SeqsUpTo(TableNames, MaxTables) :
        \A i, j \in DOMAIN l : l[i] = l[j] => i = j}

JsonExt == <<".", "j", "s", "o", "n">>

\* The files new_schema_dir can hold, named <base_table>_<date>.json.
FileNames ==
    {<<"T", "_", "1">> \o JsonExt, <<"T", "X", "_", "1">> \o JsonExt}

\* What such a file can hold: a schema, a schema of another type, a record
\* without 'type', a record without 'name'.
FileContents ==
    {<<[name |-> "a", type |-> "INTEGER"]>>,
     <<[name |-> "a", type |-> "STRING"]>>,
     <<[name |-> "a"]>>,
     <<[type |-> "STRING"]>>}

Directories == UNION {[S -> FileContents] : S \in SUBSET FileNames}

\* What client.get_table can do for a table of the list.
RemoteOutcomes ==
    {[schema |-> <<[name |-> "a", field_type |-> "INTEGER", mode |-> "NULLABLE"]>>],
     [schema |-> <<[name |-> "b", field_type |-> "STRING", mode |-> "NULLABLE"]>>],
     RemoteError}

\* The code points of the characters of the file names, which order str values.
CharOrd(c) ==
    CASE c = "." -> 46 [] c = "1" -> 49 [] c = "J" -> 74 [] c = "P" -> 80
      [] c = "T" -> 84 [] c = "X" -> 88 [] c = "_" -> 95 [] c = "j" -> 106
      [] c = "n" -> 110 [] c = "o" -> 111 [] c = "s" -> 115

\* str.endswith
endswith(str, suffix) ==
    /\ Len(str) >= Len(suffix)
    /\ SubSeq(str, Len(str) - Len(suffix) + 1, Len(str)) = suffix

\* str.startswith
startswith(str, prefix) ==
    /\ Len(str) >= Len(prefix)
    /\ SubSeq(str, 1, Len(prefix)) = prefix

\* Lines 98-101.
BaseTable(table) ==
    IF endswith(table, <<"_", "J", "P">>)
    THEN SubSeq(table, 1, Len(table) - 3)
    ELSE table

\* Lines 31-32: the names of dir that match <base_table>*.json; glob.glob
\* returns them as a list in the order the file system lists them.
glob(dir, base_table) ==
    {f \in DOMAIN dir :
        /\ startswith(f, base_table)
        /\ endswith(f, JsonExt)
        /\ Len(f) >= Len(base_table) + Len(JsonExt)}

\* Lines 33-39, files being the list glob.glob returned.
load_local_schema(dir, files) ==
    IF files = <<>> THEN [exc |-> "FileNotFoundError"]
    ELSE sorted_by_name(dir[files[1]])

\* Lines 71-77: the values the call can return, or the exception it raises.
compare_table_pair(ref, dir, files) ==
    LET s_old == get_table_schema(ref)
        s_new == load_local_schema(dir, files)
    IN  IF Raised(s_old) THEN {s_old}
        ELSE IF Raised(s_new) THEN {s_new}
        ELSE compare_schemas(s_old.val, s_new.val)

\* The lists glob.glob can return when load_local_schema is reached.
GlobResults(ref, dir, base_table) ==
    IF Raised(get_table_schema(ref)) THEN {<<>>}
    ELSE ListsOf(glob(dir, base_table))

\* all_differences[key] = entry
SetItem(dict, key, entry) ==
    [k \in DOMAIN dict \cup {key} |-> IF k = key THEN entry ELSE dict[k]]

\* Lines 105-109.
Entry(table, base_table, differences) ==
    [old_table   |-> <<old_project, old_dataset, table>>,
     new_schema  |-> <<new_schema_dir, base_table>>,
     differences |-> differences]

\* One iteration of the loop: what it called and which line it printed.
Iteration(table, ref, files, printed) ==
    [table |-> table, base_table |-> BaseTable(table), table_ref |-> ref,
     globbed |-> files, printed |-> printed]

PairIdle ==
    /\ ppc = "idle"
    /\ table_ref = NotYet
    /\ raw_new = NotYet
    /\ schema_old = NotYet
    /\ schema_new = NotYet
    /\ result = NotYet

Init ==
    /\ pc = "line89"
    /\ directory \in Directories
    /\ tables = <<>>
    /\ idx = 1
    /\ all_differences = <<>>
    /\ trace = <<>>
    /\ written = <<>>
    /\ PairIdle

\* Lines 89-92: the listing succeeds.
GetTableList ==
    /\ pc = "line89"
    /\ \E l \in TableLists : tables' = l
    /\ all_differences' = <<>>
    /\ idx' = 1
    /\ pc' = "loop"
    /\ UNCHANGED <<directory, trace, written>>
    /\ UNCHANGED pairVars

\* Line 89: the query raises, and the script ends with the exception.
GetTableListRaises ==
    /\ pc = "line89"
    /\ pc' = "aborted"
    /\ UNCHANGED <<directory, tables, idx, all_differences, trace, written>>
    /\ UNCHANGED pairVars

\* Lines 95-112: an iteration whose try block completes.
CompareSucceeds ==
    /\ pc = "loop"
    /\ idx <= Len(tables)
    /\ LET table == tables[idx]
           base_table == BaseTable(table)
       IN  \E ref \in RemoteOutcomes :
           \E files \in GlobResults(ref, directory, base_table) :
           \E r \in compare_table_pair(ref, directory, files) :
              /\ ~Raised(r)
              /\ all_differences' =
                     SetItem(all_differences, base_table,
                             Entry(table, base_table, r.val))
              /\ trace' = Append(trace,
                                 Iteration(table, ref, files, "Differences"))
    /\ idx' = idx + 1
    /\ UNCHANGED <<pc, directory, tables, written>>
    /\ UNCHANGED pairVars

\* The except clause storing an entry for the table that failed.
CompareRaises_StoresEntry ==
    /\ pc = "loop"
    /\ idx <= Len(tables)
    /\ LET table == tables[idx]
           base_table == BaseTable(table)
       IN  \E ref \in RemoteOutcomes :
           \E files \in GlobResults(ref, directory, base_table) :
           \E r \in compare_table_pair(ref, directory, files) :
              /\ Raised(r)
              /\ all_differences' =
                     SetItem(all_differences, base_table,
                             Entry(table, base_table, r))
              /\ trace' = Append(trace, Iteration(table, ref, files, "Error"))
    /\ idx' = idx + 1
    /\ UNCHANGED <<pc, directory, tables, written>>
    /\ UNCHANGED pairVars

\* The try statement around the loop instead of inside it: the first failure
\* ends the loop.
CompareRaises_EndsLoop ==
    /\ pc = "loop"
    /\ idx <= Len(tables)
    /\ LET table == tables[idx]
           base_table == BaseTable(table)
       IN  \E ref \in RemoteOutcomes :
           \E files \in GlobResults(ref, directory, base_table) :
           \E r \in compare_table_pair(ref, directory, files) :
              /\ Raised(r)
              /\ trace' = Append(trace, Iteration(table, ref, files, "Error"))
    /\ idx' = Len(tables) + 1
    /\ UNCHANGED <<pc, directory, tables, all_differences, written>>
    /\ UNCHANGED pairVars

\* Lines 95-104 and 113-114: an iteration whose try block raises.
CompareRaises ==
    /\ pc = "loop"
    /\ idx <= Len(tables)
    /\ LET table == tables[idx]
           base_table == BaseTable(table)
       IN  \E ref \in RemoteOutcomes :
           \E files \in GlobResults(ref, directory, base_table) :
           \E r \in compare_table_pair(ref, directory, files) :
              /\ Raised(r)
              /\ trace' = Append(trace, Iteration(table, ref, files, "Error"))
    /\ idx' = idx + 1
    /\ UNCHANGED <<pc, directory, tables, all_differences, written>>
    /\ UNCHANGED pairVars

\* Lines 117-121, once the loop is exhausted.
WriteResults ==
    /\ pc = "loop"
    /\ idx > Len(tables)
    /\ written' = Append(written, all_differences)
    /\ pc' = "done"
    /\ UNCHANGED <<directory, tables, idx, all_differences, trace>>
    /\ UNCHANGED pairVars

Next ==
    \/ GetTableList
    \/ GetTableListRaises
    \/ CompareSucceeds
    \/ CompareRaises
    \/ WriteResults

Spec == Init /\ [][Next]_vars

\* The script is a sequential program: a step that can be taken is taken.
FairSpec == Spec /\ WF_vars(Next)

-----------------------------------------------------------------------------
(* Vocabulary of the properties of PairSpec *)

Range(l) == {l[i] : i \in DOMAIN l}

\* The old raw schema as a list of name/type fields, in the order received.
OldFields ==
    [i \in DOMAIN table_ref.schema |->
        [name |-> table_ref.schema[i].name,
         type |-> table_ref.schema[i].field_type]]

HasNames(schema) == \A i \in DOMAIN schema : "name" \in DOMAIN schema[i]
WellFormed(schema) ==
    \A i \in DOMAIN schema : DOMAIN schema[i] = {"name", "type"}
UniqueNames(schema) ==
    \A i, j \in DOMAIN schema : schema[i].name = schema[j].name => i = j
NamesOf(schema) == {schema[i].name : i \in DOMAIN schema}

\* The type of the field called n in a well-formed schema of unique names.
TypeIn(schema, n) ==
    (CHOOSE f \in Range(schema) : f.name = n).type

\* A part of a result of compare_schemas as a set of names, an absent key
\* counting as the empty set.
NamesMissingInNew(d) ==
    IF "missing_in_new" \in DOMAIN d THEN Range(d.missing_in_new) ELSE {}
NamesMissingInOld(d) ==
    IF "missing_in_old" \in DOMAIN d THEN Range(d.missing_in_old) ELSE {}
NamesDiffering(d) ==
    IF "field_differences" \in DOMAIN d THEN DOMAIN d.field_differences ELSE {}

\* The number of list elements equal to x.
Count(l, x) == Cardinality({i \in DOMAIN l : l[i] = x})
IsPermutation(l1, l2) ==
    /\ Len(l1) = Len(l2)
    /\ \A x \in Range(l1) \cup Range(l2) : Count(l1, x) = Count(l2, x)
OrdersOf(l) == {p \in [DOMAIN l -> Range(l)] : IsPermutation(p, l)}

Returned == ppc = "returned"

\* The call compared two well-formed schemas of unique names.
ComparedUnique ==
    /\ Returned
    /\ WellFormed(raw_new)
    /\ UniqueNames(OldFields)
    /\ UniqueNames(raw_new)

-----------------------------------------------------------------------------
(* C2 *)

\* C2: for schemas old and new of unique field names, the result of
\* compare_schemas is the reference diff computed from the raw schemas:
\* missing_in_new lists exactly the names of old that new lacks, missing_in_old
\* exactly the names of new that old lacks, field_differences maps exactly the
\* common names of unequal types to {old, new}, and a key is present iff its
\* part is not empty.
C2_ReferenceDiff ==
    ComparedUnique =>
        LET d    == result.val
            O    == NamesOf(OldFields)
            N    == NamesOf(raw_new)
            Diff == {n \in O \cap N : TypeIn(OldFields, n) # TypeIn(raw_new, n)}
        IN  /\ ("missing_in_new" \in DOMAIN d) <=> (O \ N # {})
            /\ ("missing_in_old" \in DOMAIN d) <=> (N \ O # {})
            /\ ("field_differences" \in DOMAIN d) <=> (Diff # {})
            /\ DOMAIN d \subseteq
                   {"missing_in_new", "missing_in_old", "field_differences"}
            /\ "missing_in_new" \in DOMAIN d =>
                   /\ Range(d.missing_in_new) = O \ N
                   /\ Len(d.missing_in_new) = Cardinality(O \ N)
            /\ "missing_in_old" \in DOMAIN d =>
                   /\ Range(d.missing_in_old) = N \ O
                   /\ Len(d.missing_in_old) = Cardinality(N \ O)
            /\ "field_differences" \in DOMAIN d =>
                   d.field_differences =
                       [n \in Diff |-> [old |-> TypeIn(OldFields, n),
                                        new |-> TypeIn(raw_new, n)]]

\* The three kinds of difference at once.
C2_Witness ==
    /\ ComparedUnique
    /\ DOMAIN result.val =
           {"missing_in_new", "missing_in_old", "field_differences"}

-----------------------------------------------------------------------------
(* C3 *)

\* C3: in a result of compare_schemas, whatever the two schemas (duplicate
\* names and records without a type included), no field name is in more than
\* one of missing_in_new, missing_in_old and field_differences.
C3_Disjoint ==
    Returned =>
        LET d == result.val
        IN  /\ NamesMissingInNew(d) \cap NamesMissingInOld(d) = {}
            /\ NamesMissingInNew(d) \cap NamesDiffering(d) = {}
            /\ NamesMissingInOld(d) \cap NamesDiffering(d) = {}

\* A result with a missing name and a differing name.
C3_Witness ==
    /\ Returned
    /\ NamesMissingInOld(result.val) # {}
    /\ NamesDiffering(result.val) # {}

-----------------------------------------------------------------------------
(* C4 *)

\* C4: the names missing_in_new of compare_schemas(A, B) are the names
\* missing_in_old of compare_schemas(B, A), and the names missing_in_old of
\* compare_schemas(A, B) are the names missing_in_new of compare_schemas(B, A).
C4_Symmetry ==
    Returned =>
        \A swapped \in compare_schemas(schema_new, schema_old) :
            /\ ~Raised(swapped)
            /\ NamesMissingInNew(result.val) = NamesMissingInOld(swapped.val)
            /\ NamesMissingInOld(result.val) = NamesMissingInNew(swapped.val)

\* Each schema has a name the other lacks.
C4_Witness ==
    /\ Returned
    /\ NamesMissingInNew(result.val) # {}
    /\ NamesMissingInOld(result.val) # {}

-----------------------------------------------------------------------------
(* C5 *)

-----------------------------------------------------------------------------
(* C8 *)

\* C8: normalization does not depend on the order of the input: every
\* permutation of the raw new schema (one with a name that occurs twice with
\* two types included) sorts to the same sequence, gives the same name-to-field
\* mapping and the same diff against the old schema.
C8_OrderIndependent ==
    (ppc = "line77" /\ WellFormed(raw_new)) =>
        \A p \in OrdersOf(raw_new) :
            /\ sorted_by_name(p).val = schema_new
            /\ DictByName(sorted_by_name(p).val) = DictByName(schema_new)
            /\ compare_schemas(schema_old, sorted_by_name(p).val)
                   = compare_schemas(schema_old, schema_new)
-----------------------------------------------------------------------------
(* Vocabulary of the properties of Spec *)

\* The f-string of line 106, as the entry holds it.
OldTableId(table) == <<old_project, old_dataset, table>>

Failed(i) == trace[i].printed = "Error"
Succeeded(i) == trace[i].printed = "Differences"

\* The tables the loop has attempted, in the order of the attempts.
Attempted == [i \in DOMAIN trace |-> trace[i].table]

\* The report in memory and every document written to the output file.
Reports == {all_differences} \cup Range(written)

\* Whether a report has an entry made from the remote table.
Names(report, table) ==
    \E k \in DOMAIN report : report[k].old_table = OldTableId(table)

\* Iteration i reached open(files[0]) of line 36.
Loaded(i) == ~Raised(trace[i].table_ref) /\ trace[i].globbed # <<>>

\* The content of the file iteration i loaded.
LoadedSchema(i) == directory[trace[i].globbed[1]]

\* Every file of the directory holds records with a name and a type.
WellFormedDirectory ==
    \A f \in DOMAIN directory : WellFormed(directory[f])

\* Python's order on str values, on the file names.
RECURSIVE StrLess(_, _)
StrLess(s, t) ==
    IF s = <<>> THEN t # <<>>
    ELSE IF t = <<>> THEN FALSE
    ELSE IF Head(s) = Head(t) THEN StrLess(Tail(s), Tail(t))
    ELSE CharOrd(Head(s)) < CharOrd(Head(t))

-----------------------------------------------------------------------------
(* C1 *)

\* C1: a table whose comparison fails (the remote lookup raises, no local file
\* matches, or a record makes the comparison raise) does not abort the batch
\* and is in no report: the script is not aborted, once the script is done
\* every table of the list has been attempted, and no report, in memory or
\* written, has an entry whose old_table names the failed table.
C1_FailureIsSkipped ==
    \A i \in DOMAIN trace :
        Failed(i) =>
            /\ pc # "aborted"
            /\ pc = "loop" => idx > i
            /\ pc = "done" => Attempted = tables
            /\ \A report \in Reports : ~Names(report, trace[i].table)

\* The first table failed, the second was compared and is in the written
\* report.
C1_Witness ==
    /\ pc = "done"
    /\ Len(trace) >= 2
    /\ Failed(1)
    /\ Succeeded(2)
    /\ Names(written[1], tables[2])

-----------------------------------------------------------------------------
(* C6 *)

\* C6: the report holds one entry per successfully compared table, also when
\* the list holds a table and its _JP variant.
C6_OneEntryPerSuccess ==
    WellFormedDirectory =>
    \A report \in Range(written) :
        Cardinality(DOMAIN report)
            = Cardinality({i \in DOMAIN trace : Succeeded(i)})

-----------------------------------------------------------------------------
(* C7 *)

\* C7: a record without 'name' or without 'type', in the old or in the new
\* schema, makes the comparison of its table fail: the iteration prints the
\* error and no report has an entry for the table.
C7_MalformedRecordFails ==
    \A i \in DOMAIN trace :
        (Loaded(i) /\ ~WellFormed(LoadedSchema(i))) =>
            /\ Failed(i)
            /\ \A report \in Reports : ~Names(report, trace[i].table)

-----------------------------------------------------------------------------
(* C9 *)

-----------------------------------------------------------------------------
(* C10 *)

\* C10: when several files match <base_table>*.json, load_local_schema loads
\* the lexically first of them, in whatever order glob.glob lists them.
C10_LexicallyFirst ==
    WellFormedDirectory =>
    \A i \in DOMAIN trace :
        Loaded(i) =>
            \A f \in glob(directory, trace[i].base_table) :
                f = trace[i].globbed[1] \/ StrLess(trace[i].globbed[1], f)

====
